---- MODULE Spec2Model ----
(***************************************************************************)
(* DraggableBoard (src/src/index.js): the drag session of a multi-column   *)
(* board.  The component's React state (movingMode, hoverComponent) is the *)
(* value the closures of the last render hold; a setState call queues the  *)
(* next value, which the next render applies.  Refs (hoverRowItem,         *)
(* scrollOffset) and shared values (absoluteX, absoluteY) are read live.   *)
(* The repository (./handlers/repository) is not part of the sources: its  *)
(* operations are modelled from the specification of the board.  The order *)
(* of the rows inside a column is not part of the state: no operation of   *)
(* index.js reads it.                                                      *)
(***************************************************************************)
EXTENDS Integers, Sequences, FiniteSets, TLC

\* ---------------------------------------------------------------- bounds
MaxScroll == 1
MaxDrags == 2
MaxTranslate == 1

\* ------------------------------------------------------------- constants
SCROLL_THRESHOLD == 50
SCROLL_STEP == 8
deviceWidth == 400

Null == "null"
Undefined == "undefined"

\* the board's data: columns A(r1), B(r2) and an empty column C
Rows == {"r1", "r2"}
Columns == {"A", "B", "C"}

InitColumn(r) == IF r = "r1" THEN "A" ELSE "B"

\* measured horizontal spans of the columns, half-open [x, x + width)
ColumnLayout ==
  [c \in Columns |->
     CASE c = "A" -> [x |-> 10, width |-> 120]
       [] c = "B" -> [x |-> 140, width |-> 120]
       [] c = "C" -> [x |-> 270, width |-> 120]]

\* pointer samples <<x, y>>: left of every column (0), inside a column and an
\* edge zone (20, 351), on the left threshold (50)
Samples == {<<0, 100>>, <<20, 100>>, <<50, 100>>, <<351, 100>>}

\* the values withSpring(0) passes through: samples nearer to 0, then rest
SpringValues == Samples \cup {<<0, 0>>}

\* the props of the board: the defaults, and each prop changed on its own
Props == {<<"function", 1>>, <<"function", 2>>, <<Null, 1>>}

\* the largest offset of the scroll container: content width minus viewport
ContentMax == 8

\* event.translationX of a pointer sample, in units
Translations == {0, 1}

NoItem == [id |-> Null, columnId |-> Null, oldColumnId |-> Undefined]

VARIABLES
  onDragEnd,              \* prop: "function" or Null
  dragSpeedFactor,        \* prop
  movingMode,             \* useState value held by the closures of the last render
  pendingMovingMode,      \* value queued by setMovingMode
  hoverComponent,         \* useState value of the last render: the row the hover item shows
  pendingHoverComponent,  \* value queued by setHoverComponent
  hoverShown,             \* what renderHoverComponent returned at the last render
  hoverRowItem,           \* hoverRowItem.current
  scrollOffset,           \* scrollOffset.current
  contentOffset,          \* ScrollView: the container's actual horizontal offset
  scrollEvents,           \* ScrollView: a scroll is running, its events are to come
  absoluteX, absoluteY,   \* shared values
  translateX,             \* shared value (translateY is handled the same way)
  startX,                 \* ctx.startX of the gesture handler
  springing,              \* withSpring(0) is animating the shared values
  gesture,                \* state of the pan gesture handler
  hidden,                 \* repository: rows hidden
  rowColumn,              \* repository: row.columnId
  rowLayout,              \* repository: rows with a measured layout
  measuring,              \* moveItem calls suspended in rowItem.measureLayout()
  originColumnId,         \* history: column of the session's row when the session was created
  changed,                \* history: the session's row changed column
  lastHit,                \* history: column of the session's last successful hit-test
                          \* (the three are reset when the session is cleared)
  drags,                  \* history: number of moveItem calls so far
  event,                  \* history: the last step was onEnd, a cancelled or failed gesture, or another
  calls                   \* history: the calls the last handler made, in order

vars == <<onDragEnd, dragSpeedFactor, movingMode, pendingMovingMode,
          contentOffset, scrollEvents,
          hoverComponent, pendingHoverComponent, hoverShown, hoverRowItem,
          scrollOffset, absoluteX, absoluteY, translateX, startX, springing,
          gesture, hidden,
          rowColumn, rowLayout, measuring, originColumnId, changed, lastHit,
          drags, event, calls>>

props == <<onDragEnd, dragSpeedFactor>>

Call(op, args) == [op |-> op, args |-> args]
CallsOf(cs, op) == {i \in DOMAIN cs : cs[i].op = op}

\* ------------------------------------------------------------ repository
columnAtPosition(x) ==
  LET hit == {c \in Columns :
                /\ ColumnLayout[c].x <= x
                /\ x < ColumnLayout[c].x + ColumnLayout[c].width}
  IN IF hit = {} THEN Null ELSE CHOOSE c \in hit : TRUE

findRow(item, hid) == IF item.id \in Rows \ hid THEN item.id ELSE Null

hideRow(r, hid) == hid \cup {r}

showRow(item, hid) == hid \ {item.id}

\* variant: the two assignments of listenRowChangeColumn exchanged
listenRowChangeColumnSwapped(item, fromColumnId, toColumnId) ==
  [item EXCEPT !.columnId = fromColumnId, !.oldColumnId = toColumnId]

listenRowChangeColumn(item, fromColumnId, toColumnId) ==
  [item EXCEPT !.columnId = toColumnId, !.oldColumnId = fromColumnId]

\* the session's row is moved to the column under x; the column-changed
\* callback runs once when that column differs from the session's column
moveRow(item, x, y, rc) ==
  LET col == columnAtPosition(x)
  IN IF col = Null
       THEN [ret |-> Null, item |-> item, rowColumn |-> rc, changed |-> FALSE]
     ELSE IF col # item.columnId
       THEN [ret |-> col,
             item |-> listenRowChangeColumn(item, item.columnId, col),
             rowColumn |-> [rc EXCEPT ![item.id] = col],
             changed |-> TRUE]
     ELSE [ret |-> col, item |-> item, rowColumn |-> rc, changed |-> FALSE]

\* ------------------------------------------------------------- the board
scrollViewRef == TRUE

xScrollThreshold == SCROLL_THRESHOLD

\* variant: onEnd leaves the session record in place
sessionAfterEndKept(item) == item

\* onEnd: hoverRowItem.current = null
sessionAfterEnd(item) == NoItem

\* variant: onEnd resolves without looking at movingMode
resolvingAlways(mm) == TRUE

\* onEnd: if (movingMode)
resolving(mm) == mm

ScrollRight(x) == x + xScrollThreshold > deviceWidth

\* variant: the left edge zone includes the threshold
ScrollLeftInclusive(x) == x <= xScrollThreshold

ScrollLeft(x) == x < xScrollThreshold

\* variant: the scroll command is not followed by a re-measurement
autoScrollNoMeasure(target) == <<Call("scrollTo", <<target>>)>>

\* scrollViewRef.current.scrollTo({x, y: 0, animated: true}) followed by
\* repository.measureColumnsLayout()
autoScroll(target) ==
  <<Call("scrollTo", <<target>>), Call("measureColumnsLayout", <<>>)>>

handleRowPosition(item, x, y, rc, so, dsf) ==
  IF item # NoItem /\ (x # 0 \/ y # 0)
    THEN LET m == moveRow(item, x, y, rc)
             mv == <<Call("moveRow", <<x, y, m.ret>>)>>
         IN IF m.ret # Null /\ scrollViewRef
              THEN IF ScrollRight(x)
                     THEN [item |-> m.item, rowColumn |-> m.rowColumn,
                           changed |-> m.changed, ret |-> m.ret,
                           scrollOffset |-> so + SCROLL_STEP,
                           calls |-> mv \o autoScroll((so + SCROLL_STEP) * dsf)]
                   ELSE IF ScrollLeft(x)
                     THEN [item |-> m.item, rowColumn |-> m.rowColumn,
                           changed |-> m.changed, ret |-> m.ret,
                           scrollOffset |-> so - SCROLL_STEP,
                           calls |-> mv \o autoScroll((so - SCROLL_STEP) \div dsf)]
                   ELSE [item |-> m.item, rowColumn |-> m.rowColumn,
                         changed |-> m.changed, ret |-> m.ret,
                         scrollOffset |-> so, calls |-> mv]
            ELSE [item |-> m.item, rowColumn |-> m.rowColumn,
                  changed |-> m.changed, ret |-> m.ret,
                  scrollOffset |-> so, calls |-> mv]
  ELSE [item |-> item, rowColumn |-> rc, changed |-> FALSE, ret |-> Null,
        scrollOffset |-> so, calls |-> <<>>]

\* variant: the reaction handles the position whatever movingMode is
reactionAlways(mm, item, x, y, rc, so, dsf) ==
  handleRowPosition(item, x, y, rc, so, dsf)

\* useAnimatedReaction: the reaction of the last render sees its movingMode
reaction(mm, item, x, y, rc, so, dsf) ==
  IF mm THEN handleRowPosition(item, x, y, rc, so, dsf)
  ELSE [item |-> item, rowColumn |-> rc, changed |-> FALSE, ret |-> Null,
        scrollOffset |-> so, calls |-> <<>>]

InScrollRange(so) == so \in (-(MaxScroll * SCROLL_STEP))..(MaxScroll * SCROLL_STEP)

renderHoverComponent(hc, item, hid, lay) ==
  IF hc # Null /\ item # NoItem
    THEN LET row == findRow(item, hid)
         IN IF row # Null /\ row \in lay THEN hc ELSE Null
  ELSE Null

Init ==
  /\ \E p \in Props : onDragEnd = p[1] /\ dragSpeedFactor = p[2]
  /\ movingMode = FALSE
  /\ pendingMovingMode = FALSE
  /\ hoverComponent = Null
  /\ pendingHoverComponent = Null
  /\ hoverShown = Null
  /\ hoverRowItem = NoItem
  /\ scrollOffset = 0
  /\ contentOffset = 0
  /\ scrollEvents = FALSE
  /\ absoluteX = 0
  /\ absoluteY = 0
  /\ translateX = 0
  /\ startX = 0
  /\ springing = FALSE
  /\ gesture = "undetermined"
  /\ hidden = {}
  /\ rowColumn = [r \in Rows |-> InitColumn(r)]
  /\ rowLayout = {}
  /\ measuring = {}
  /\ originColumnId = Null
  /\ changed = FALSE
  /\ lastHit = Null
  /\ drags = 0
  /\ event = "other"
  /\ calls = <<>>

\* ScrollView.scrollTo: the container moves to the requested offset clamped
\* to its content
Clamp(target) ==
  IF target < 0 THEN 0 ELSE IF target > ContentMax THEN ContentMax ELSE target

\* the offset of the container after the calls cs
scrollTo(cs, co) ==
  IF CallsOf(cs, "scrollTo") = {} THEN co
  ELSE Clamp(cs[CHOOSE i \in CallsOf(cs, "scrollTo") : TRUE].args[1])

\* the effects of a reaction run on the refs, the repository and the container;
\* a scroll command that moves the container makes it emit scroll events
ApplyReaction(res, pre) ==
  /\ InScrollRange(res.scrollOffset)
  /\ contentOffset' = scrollTo(res.calls, contentOffset)
  /\ scrollEvents' = (scrollEvents \/ contentOffset' # contentOffset)
  /\ hoverRowItem' = res.item
  /\ rowColumn' = res.rowColumn
  /\ scrollOffset' = res.scrollOffset
  /\ changed' = (changed \/ res.changed)
  /\ lastHit' = (IF res.ret # Null THEN res.ret ELSE lastHit)
  /\ calls' = pre \o res.calls

\* variant: moveItem sets the session, movingMode and the hover component
\* before it awaits the measurement, and does not hide the row first
moveItemStartEarly(r) ==
  /\ r \in Rows \ (hidden \cup measuring)
  /\ gesture # "undetermined"
  /\ drags < MaxDrags
  /\ drags' = drags + 1
  /\ measuring' = measuring \cup {r}
  /\ hoverRowItem' = [id |-> r, columnId |-> rowColumn[r], oldColumnId |-> Undefined]
  /\ pendingMovingMode' = TRUE
  /\ pendingHoverComponent' = r
  /\ event' = "other"
  /\ calls' = <<>>
  /\ UNCHANGED <<props, contentOffset, scrollEvents, translateX, startX, movingMode, hoverComponent, hoverShown, scrollOffset,
                 absoluteX, absoluteY, springing, gesture, hidden, rowColumn,
                 rowLayout, originColumnId, changed, lastHit>>

\* moveItem up to its await: a row that is rendered is long-pressed (the
\* pointer is down)
moveItemStart(r) ==
  /\ r \in Rows \ hidden
  /\ gesture # "undetermined"
  /\ drags < MaxDrags
  /\ drags' = drags + 1
  /\ hidden' = hideRow(r, hidden)
  /\ measuring' = measuring \cup {r}
  /\ event' = "other"
  /\ calls' = <<>>
  /\ UNCHANGED <<props, contentOffset, scrollEvents, translateX, startX, movingMode, pendingMovingMode, hoverComponent,
                 pendingHoverComponent, hoverShown, hoverRowItem, scrollOffset,
                 absoluteX, absoluteY, springing, gesture, rowColumn,
                 rowLayout, originColumnId, changed, lastHit>>

\* moveItem after rowItem.measureLayout() resolved
moveItemResume(r) ==
  /\ r \in measuring
  /\ measuring' = measuring \ {r}
  /\ rowLayout' = rowLayout \cup {r}
  /\ hoverRowItem' = [id |-> r, columnId |-> rowColumn[r], oldColumnId |-> Undefined]
  /\ pendingMovingMode' = TRUE
  /\ pendingHoverComponent' = r
  /\ originColumnId' = rowColumn[r]
  /\ changed' = FALSE
  /\ lastHit' = Null
  /\ event' = "other"
  /\ calls' = <<>>
  /\ UNCHANGED <<props, contentOffset, scrollEvents, translateX, startX, movingMode, hoverComponent, hoverShown, scrollOffset,
                 absoluteX, absoluteY, springing, gesture, hidden, rowColumn,
                 drags>>

\* a render applies the queued state; when movingMode changed, the reaction is
\* registered again and runs once on the current shared values
Render ==
  LET res == IF pendingMovingMode # movingMode
               THEN reaction(pendingMovingMode, hoverRowItem, absoluteX,
                             absoluteY, rowColumn, scrollOffset, dragSpeedFactor)
             ELSE reaction(FALSE, hoverRowItem, absoluteX, absoluteY,
                           rowColumn, scrollOffset, dragSpeedFactor)
  IN /\ \/ pendingMovingMode # movingMode
        \/ pendingHoverComponent # hoverComponent
        \/ hoverShown # renderHoverComponent(pendingHoverComponent,
                                             hoverRowItem, hidden, rowLayout)
     /\ movingMode' = pendingMovingMode
     /\ hoverComponent' = pendingHoverComponent
     /\ hoverShown' = renderHoverComponent(pendingHoverComponent, hoverRowItem,
                                           hidden, rowLayout)
     /\ ApplyReaction(res, <<>>)
     /\ event' = "other"
     /\ UNCHANGED <<props, translateX, startX, pendingMovingMode, pendingHoverComponent, absoluteX,
                    absoluteY, springing, gesture, hidden, rowLayout, measuring,
                    originColumnId, drags>>

\* pan gesture handler: pointer down
GestureBegin ==
  /\ gesture = "undetermined"
  /\ gesture' = "began"
  /\ event' = "other"
  /\ calls' = <<>>
  /\ UNCHANGED <<props, contentOffset, scrollEvents, translateX, startX, movingMode, pendingMovingMode, hoverComponent,
                 pendingHoverComponent, hoverShown, hoverRowItem, scrollOffset,
                 absoluteX, absoluteY, springing, hidden, rowColumn, rowLayout,
                 measuring, originColumnId, changed, lastHit, drags>>

\* the pan is recognised: onStart keeps the translation in its context
onStart ==
  /\ gesture = "began"
  /\ gesture' = "active"
  /\ startX' = translateX
  /\ event' = "other"
  /\ calls' = <<>>
  /\ UNCHANGED <<props, contentOffset, scrollEvents, translateX, movingMode, pendingMovingMode, hoverComponent,
                 pendingHoverComponent, hoverShown, hoverRowItem, scrollOffset,
                 absoluteX, absoluteY, springing, hidden, rowColumn, rowLayout,
                 measuring, originColumnId, changed, lastHit, drags>>

\* a pointer sample: the shared values change and the reaction runs
onActive(x, y) ==
  /\ gesture = "active"
  /\ <<x, y>> # <<absoluteX, absoluteY>>
  /\ \E t \in Translations :
       /\ startX + t <= MaxTranslate
       /\ translateX' = startX + t
  /\ absoluteX' = x
  /\ absoluteY' = y
  /\ springing' = FALSE
  /\ ApplyReaction(reaction(movingMode, hoverRowItem, x, y, rowColumn,
                            scrollOffset, dragSpeedFactor), <<>>)
  /\ event' = "other"
  /\ UNCHANGED <<props, startX, movingMode, pendingMovingMode, hoverComponent,
                 pendingHoverComponent, hoverShown, gesture, hidden, rowLayout,
                 measuring, originColumnId, drags>>

\* pointer up on an active pan
onEnd ==
  /\ gesture = "active"
  /\ gesture' = "undetermined"
  /\ event' = "onEnd"
  /\ IF resolving(movingMode)
       THEN /\ springing' = (<<absoluteX, absoluteY, translateX>> # <<0, 0, 0>>)
            /\ pendingHoverComponent' = Null
            /\ pendingMovingMode' = FALSE
            /\ IF onDragEnd # Null /\ hoverRowItem = NoItem
                 THEN \* hoverRowItem.current.oldColumnId throws
                      /\ calls' = <<Call("TypeError", <<>>)>>
                      /\ UNCHANGED <<hidden, hoverRowItem>>
               ELSE /\ calls' =
                         (IF onDragEnd # Null
                            THEN <<Call("onDragEnd",
                                        <<hoverRowItem.oldColumnId,
                                          hoverRowItem.columnId,
                                          hoverRowItem.id>>),
                                   Call("updateOriginalData", <<>>)>>
                          ELSE <<>>)
                         \o <<Call("showRow", <<hoverRowItem.id>>)>>
                    /\ hidden' = showRow(hoverRowItem, hidden)
                    /\ hoverRowItem' = sessionAfterEnd(hoverRowItem)
     ELSE /\ calls' = <<>>
          /\ UNCHANGED <<springing, pendingHoverComponent, pendingMovingMode,
                         hidden, hoverRowItem>>
  /\ IF hoverRowItem' = NoItem
       THEN originColumnId' = Null /\ changed' = FALSE /\ lastHit' = Null
     ELSE UNCHANGED <<originColumnId, changed, lastHit>>
  /\ startX' = 0
  /\ UNCHANGED <<props, contentOffset, scrollEvents, translateX, movingMode, hoverComponent, hoverShown,
                 scrollOffset, absoluteX, absoluteY, rowColumn, rowLayout,
                 measuring, drags>>

\* the pan is cancelled: the handler object has no onCancel / onFinish
GestureCancel ==
  /\ gesture = "active"
  /\ gesture' = "undetermined"
  /\ event' = "cancel"
  /\ calls' = <<>>
  /\ startX' = 0
  /\ UNCHANGED <<props, contentOffset, scrollEvents, translateX, movingMode, pendingMovingMode, hoverComponent,
                 pendingHoverComponent, hoverShown, hoverRowItem, scrollOffset,
                 absoluteX, absoluteY, springing, hidden, rowColumn, rowLayout,
                 measuring, originColumnId, changed, lastHit, drags>>

\* pointer up before the pan was recognised: the handler object has no onFail
GestureFail ==
  /\ gesture = "began"
  /\ gesture' = "undetermined"
  /\ event' = "cancel"
  /\ calls' = <<>>
  /\ UNCHANGED <<props, contentOffset, scrollEvents, translateX, startX, movingMode, pendingMovingMode, hoverComponent,
                 pendingHoverComponent, hoverShown, hoverRowItem, scrollOffset,
                 absoluteX, absoluteY, springing, hidden, rowColumn, rowLayout,
                 measuring, originColumnId, changed, lastHit, drags>>

\* one frame of withSpring(0) on absoluteX / absoluteY: the values move to 0
\* and the reaction runs on them; translateX reaches 0 with the last frame
SpringFrame(x, y) ==
  /\ springing
  /\ x < absoluteX \/ (x = absoluteX /\ y < absoluteY)
  /\ absoluteX' = x
  /\ absoluteY' = y
  /\ springing' = (<<x, y>> # <<0, 0>>)
  /\ translateX' = (IF <<x, y>> = <<0, 0>> THEN 0 ELSE translateX)
  /\ ApplyReaction(reaction(movingMode, hoverRowItem, x, y, rowColumn,
                            scrollOffset, dragSpeedFactor), <<>>)
  /\ event' = "other"
  /\ UNCHANGED <<props, startX, movingMode, pendingMovingMode, hoverComponent,
                 pendingHoverComponent, hoverShown, gesture, hidden, rowLayout,
                 measuring, originColumnId, drags>>

\* onScroll: the container reports its offset while it scrolls
onScroll ==
  /\ scrollEvents
  /\ scrollOffset' = contentOffset
  /\ event' = "other"
  /\ calls' = <<>>
  /\ UNCHANGED <<props, contentOffset, scrollEvents, translateX, startX,
                 movingMode, pendingMovingMode, hoverComponent,
                 pendingHoverComponent, hoverShown, hoverRowItem, absoluteX,
                 absoluteY, springing, gesture, hidden, rowColumn, rowLayout,
                 measuring, originColumnId, changed, lastHit, drags>>

\* onScrollEnd (onMomentumScrollEnd): the scroll has come to rest
onScrollEnd ==
  /\ scrollEvents
  /\ scrollEvents' = FALSE
  /\ scrollOffset' = contentOffset
  /\ event' = "other"
  /\ calls' = <<Call("measureColumnsLayout", <<>>)>>
  /\ UNCHANGED <<props, contentOffset, translateX, startX, movingMode,
                 pendingMovingMode, hoverComponent, pendingHoverComponent,
                 hoverShown, hoverRowItem, absoluteX, absoluteY, springing,
                 gesture, hidden, rowColumn, rowLayout, measuring,
                 originColumnId, changed, lastHit, drags>>

\* the container delivers the events of a scroll before another handler runs
Next ==
  \/ ~scrollEvents /\ \E r \in Rows : moveItemStart(r)
  \/ ~scrollEvents /\ \E r \in Rows : moveItemResume(r)
  \/ ~scrollEvents /\ Render
  \/ ~scrollEvents /\ GestureBegin
  \/ ~scrollEvents /\ onStart
  \/ ~scrollEvents /\ \E p \in Samples : onActive(p[1], p[2])
  \/ ~scrollEvents /\ onEnd
  \/ ~scrollEvents /\ GestureCancel
  \/ ~scrollEvents /\ GestureFail
  \/ ~scrollEvents /\ \E p \in SpringValues : SpringFrame(p[1], p[2])
  \/ onScroll
  \/ onScrollEnd

Spec == Init /\ [][Next]_vars

\* ================================================================ claims

\* a drag is in Dragging: the handlers see movingMode and a session exists
Dragging == movingMode /\ hoverRowItem # NoItem

\* a session is Measuring or Dragging
SessionActive == measuring # {} \/ hoverRowItem # NoItem

Count(cs, op) == Cardinality(CallsOf(cs, op))

C2_SameColumnIds ==
  [][\A i \in CallsOf(calls', "onDragEnd") :
       ~changed => calls'[i].args[1] = calls'[i].args[2]]_vars

\* C3: for a drag whose row changed column, the first argument of onDragEnd is
\* the column the row was in when the drag started and the second the column
\* it is in at release, whatever the sequence of crossings.
C3_OriginAndFinalColumn ==
  [][\A i \in CallsOf(calls', "onDragEnd") :
       changed => /\ calls'[i].args[1] = originColumnId
                  /\ calls'[i].args[2] = rowColumn[calls'[i].args[3]]]_vars

\* C4: a moveItem issued while a session is Measuring or Dragging is ignored:
\* it hides no additional row, and the session record of a row is never
\* replaced by the record of another row.
C4_SecondDragIgnored ==
  [][/\ (SessionActive /\ measuring' # measuring /\ measuring \subseteq measuring')
          => hidden' = hidden
     /\ hoverRowItem # NoItem => hoverRowItem'.id \in {hoverRowItem.id, Null}]_vars

\* C5: a gesture cancelled or failed while a drag is in Dragging is resolved
\* like a pointer-up: the session is cleared, movingMode and the hover
\* component are reset, the row is shown again and updateOriginalData runs.
C5_CancelResolves ==
  [][(event' = "cancel" /\ Dragging)
       => /\ hoverRowItem' = NoItem
          /\ ~pendingMovingMode'
          /\ pendingHoverComponent' = Null
          /\ hoverRowItem.id \notin hidden'
          /\ Count(calls', "updateOriginalData") = 1]_vars

\* C6: updateOriginalData is called exactly once by the pointer-up of a drag
\* in Dragging, whatever the props of the board, and by no other step.
C6_UpdateOriginalDataOnce ==
  [][Count(calls', "updateOriginalData") =
       (IF event' = "onEnd" /\ Dragging THEN 1 ELSE 0)]_vars

\* C7: a moveRow call that returns absent leaves the session's columnId
\* unchanged, and the second argument of onDragEnd is a column: the column
\* of the session's last successful hit-test when there was one.
C7_ResolvesToLastHit ==
  /\ [][\A i \in CallsOf(calls', "moveRow") :
          calls'[i].args[3] = Null
            => hoverRowItem'.columnId = hoverRowItem.columnId]_vars
  /\ [][\A i \in CallsOf(calls', "onDragEnd") :
          /\ calls'[i].args[2] \in Columns
          /\ lastHit # Null => calls'[i].args[2] = lastHit]_vars

\* a drag whose row was moved to another column by a hit-test was released
\* outside every column
C7_Witness ==
  /\ event = "onEnd"
  /\ \E i \in CallsOf(calls, "onDragEnd") : calls[i].args[1] # Undefined
  /\ columnAtPosition(absoluteX) = Null
  /\ <<absoluteX, absoluteY>> # <<0, 0>>

InEdgeZone(x) == x < xScrollThreshold \/ x > deviceWidth - xScrollThreshold

\* C8 as stated: for every sample processed during a drag, a scroll command
\* is issued if and only if x is in one of the two edge zones.
C8_ScrollIffEdgeZone ==
  \A i \in CallsOf(calls, "moveRow") :
    (Count(calls, "scrollTo") > 0) <=> InEdgeZone(calls[i].args[1])

\* C8 amended: for every sample processed during a drag, a scroll command is
\* issued if and only if moveRow returned a column and x is in one of the two
\* edge zones; none is issued for an x between the two thresholds.
C8_ScrollIffColumnAndEdgeZone ==
  \A i \in CallsOf(calls, "moveRow") :
    (Count(calls, "scrollTo") > 0)
      <=> (calls[i].args[3] # Null /\ InEdgeZone(calls[i].args[1]))

\* a sample in an edge zone and outside every column was processed
C8_Witness ==
  \E i \in CallsOf(calls, "moveRow") :
    /\ InEdgeZone(calls[i].args[1])
    /\ calls[i].args[3] = Null
    /\ Count(calls, "scrollTo") = 0

C10_IdleAfterGesture ==
  (gesture = "undetermined" /\ measuring = {})
    => (hoverRowItem = NoItem /\ hidden = {} /\ ~pendingMovingMode)

C12_MoveRowOnlyInSession ==
  [][/\ Count(calls', "moveRow") <= 1
     /\ Count(calls', "moveRow") > 0
          => (hoverRowItem # NoItem /\ movingMode' /\ pendingMovingMode)]_vars

\* moveRow has just been invoked for the session's row
C12_Witness == Count(calls, "moveRow") = 1 /\ Dragging

\* C13: each auto-scroll step commands the current scroll offset moved by the
\* step scaled by the speed factor: the offset plus 8 * dragSpeedFactor near
\* the right edge, the offset minus 8 / dragSpeedFactor near the left edge; so
\* a right-edge step never scrolls backward nor a left-edge step forward.
C13_ScrollTargetRelative ==
  [][\A i \in CallsOf(calls', "scrollTo") : \A j \in CallsOf(calls', "moveRow") :
       LET x == calls'[j].args[1]
           target == calls'[i].args[1]
       IN IF x > deviceWidth - xScrollThreshold
            THEN /\ target = scrollOffset + SCROLL_STEP * dragSpeedFactor
                 /\ target >= scrollOffset
          ELSE /\ target = scrollOffset - (SCROLL_STEP \div dragSpeedFactor)
               /\ target <= scrollOffset]_vars

\* C14: every scroll command of auto-scroll is immediately followed by one
\* measureColumnsLayout request in the same sample, and a sample that issues
\* no scroll command requests no re-measurement.
C14_ScrollThenMeasure ==
  /\ \A i \in CallsOf(calls, "scrollTo") :
       i + 1 \in CallsOf(calls, "measureColumnsLayout")
  /\ Count(calls, "moveRow") > 0
       => Count(calls, "measureColumnsLayout") = Count(calls, "scrollTo")

\* a sample has just issued a scroll command
C14_Witness == Count(calls, "moveRow") = 1 /\ Count(calls, "scrollTo") = 1

\* C15: while a session is Dragging, its hover component is the rendered state
\* and the dragged row (hidden in the repository) has a measured layout, the
\* render shows the floating hover element of the dragged row.
C15_HoverRendered ==
  (/\ Dragging
   /\ hoverComponent = hoverRowItem.id
   /\ hoverRowItem.id \in hidden
   /\ hoverRowItem.id \in rowLayout) => hoverShown = hoverRowItem.id

\* C16: every position passed to moveRow is a pointer sample: it is the value
\* the pointer has just written, never a value of the spring that onEnd
\* started on absoluteX / absoluteY and that is still animating.
C16_MoveRowOnlyPointerSamples ==
  [][\A i \in CallsOf(calls', "moveRow") :
       /\ ~springing'
       /\ <<calls'[i].args[1], calls'[i].args[2]>> = <<absoluteX', absoluteY'>>]_vars

\* C17: whenever onEnd runs its resolving branch (it sees movingMode true) a
\* session record exists: hoverRowItem is not null.
C17_SessionWhenResolving ==
  [][(event' = "onEnd" /\ movingMode) => hoverRowItem # NoItem]_vars

\* C18: every gesture end leaves the hover translation at the neutral value 0
\* or returning to it by the spring, also the end of a pan during which no
\* drag was active.
C18_TranslationNeutralAfterEnd ==
  [][event' = "onEnd" => (translateX' = 0 \/ springing')]_vars

\* C19: whenever the container is at rest with no scroll event to come, the
\* tracked scroll offset equals the container's actual offset; in particular
\* it does not drift below 0 when the container clamps a request.
C19_TrackedOffsetIsActual == ~scrollEvents => scrollOffset = contentOffset

====
